---- MODULE Spec2Model ----
(***************************************************************************)
(* Model of src/auth.rs: the TidalCredentials holder (new, session,        *)
(* create_session) and the Session exchanger (get_session,                 *)
(* fetch_session_data) together with the login endpoint they talk to.      *)
(*                                                                         *)
(* Each caller is a task that owns one TidalCredentials value and calls    *)
(* the methods of auth.rs on it.  The two await points of                  *)
(* fetch_session_data (send().await, json().await) are the places where    *)
(* the tasks interleave.                                                   *)
(***************************************************************************)
EXTENDS Integers, Sequences, FiniteSets, TLC

(* ---------------------------------------------------------------- bounds *)

\* Number of create_session / get_session calls one caller may start.
MaxCalls == 1

(* ---------------------------------------------------------- value domains *)

Callers == {"a", "b"}

\* Application tokens handed to TidalCredentials::new; "" is the empty token.
Tokens == {"", "some_token", "other_token"}

Usernames == {"myuser@example.com"}

Passwords == {"somepawssowrd", "pw2"}

\* Option<T>: None is the empty tuple, Some(x) the one-element tuple.
None == << >>

Some(x) == << x >>

is_some(o) == Len(o) = 1

is_none(o) == Len(o) = 0

unwrap(o) == o[1]

\* struct Session.
MkSession(u, s, c) == [user_id |-> u, session_id |-> s, country_code |-> c]

\* The arguments the callers pass to TidalCredentials::session.
SessionArgs == { None, Some(MkSession(1234, "xq123", "US")) }

(* ------------------------------------------------------- JSON and bodies *)

\* A JSON scalar, as serde_json reads its literal:
\*   [num |-> n]      an integer literal that fits in 32 bits (but not -0)
\*   [big |-> digits] an integer literal too wide for 32 bits
\*   [float |-> lit]  a literal serde_json reads as a float: one with a
\*                    fraction or an exponent, and -0
\*   [str |-> s]      a string
JNum(n) == [num |-> n]

JBig(digits) == [big |-> digits]

JFloat(lit) == [float |-> lit]

JStr(s) == [str |-> s]

IsJStr(v) == DOMAIN v = {"str"}

\* serde's i32 visitor: accepts an integer that fits in 32 bits, and refuses
\* wider integers, floats (so also the literal -0) and strings.
IsI32(v) == DOMAIN v = {"num"}

\* One member of a JSON object.
Member(k, v) == [key |-> k, val |-> v]

\* A response body: what reading it yields.
\*   framing "object"   a JSON object; members are its members in order (a
\*                      name may occur more than once)
\*   framing "array"    a JSON array; members are its elements in order
\*   framing "scalar"   any other JSON value
\*   framing "garbage"  the bytes are not JSON
\*   framing "io_error" the connection broke while the body was read
ObjectBody(ms) == [framing |-> "object", members |-> ms]

ArrayBody(xs) == [framing |-> "array", members |-> xs]

ScalarBody == [framing |-> "scalar", members |-> << >>]

GarbageBody == [framing |-> "garbage", members |-> << >>]

BrokenBody == [framing |-> "io_error", members |-> << >>]

\* The object {"userId": u, "sessionId": s, "countryCode": c}.
SessionObject(u, s, c) ==
    ObjectBody(<< Member("userId", u), Member("sessionId", s),
                  Member("countryCode", c) >>)

\* The failure body of the endpoint.
FailureObject ==
    ObjectBody(<< Member("status", JNum(401)), Member("subStatus", JNum(3001)),
                  Member("userMessage", JStr("Invalid credentials")) >>)

Bodies ==
    { SessionObject(JNum(123), JStr("session-id-123"), JStr("US")),
      ObjectBody(<< Member("extra", JStr("ignored")), Member("countryCode", JStr("AR")),
                    Member("userId", JNum(-7)), Member("sessionId", JStr("s2")),
                    Member("extra", JStr("again")) >>),
      ObjectBody(<< Member("userId", JNum(123)),
                    Member("sessionId", JStr("session-id-123")) >>),
      ObjectBody(<< Member("userId", JNum(123)), Member("sessionId", JStr("a")),
                    Member("countryCode", JStr("US")), Member("userId", JNum(123)) >>),
      SessionObject(JStr("123"), JStr("session-id-123"), JStr("US")),
      SessionObject(JBig("2147483648"), JStr("session-id-123"), JStr("US")),
      SessionObject(JFloat("-0"), JStr("a"), JStr("US")),
      FailureObject,
      ArrayBody(<< JNum(123), JStr("session-id-123"), JStr("US") >>),
      ArrayBody(<< JNum(123), JStr("session-id-123") >>),
      ArrayBody(<< JNum(123), JStr("session-id-123"), JStr("US"), JStr("more") >>),
      ArrayBody(<< JFloat("123.0"), JStr("session-id-123"), JStr("US") >>),
      ScalarBody,
      GarbageBody,
      BrokenBody }

\* HTTP status codes the endpoint answers with.
Statuses == {200, 299, 300, 401}

\* Why send() can fail before any response is received.
TransportCauses == {"connect", "timeout"}

\* A response received: its status and what reading its body yields.
HttpResponse(s, b) == [status |-> s, body |-> b]

\* The responses send().await can yield.
Responses == { HttpResponse(s, b) : s \in Statuses, b \in Bodies }

(* ------------------------------------------------------- pure functions *)

\* Result<T, E>.
Ok(v) == [ok |-> TRUE, value |-> v]

Err(e) == [ok |-> FALSE, error |-> e]

\* enum AuthError.
AuthRequestFailed(source) == [variant |-> "AuthRequestFailed", source |-> source]

CreateSessionFailed == [variant |-> "CreateSessionFailed"]

\* Result::ok: the success value, or None with the error dropped.
ok(r) == IF r.ok THEN Some(r.value) ELSE None

\* new, were it to start from an empty String instead of the argument.
new_blank(token) == [token |-> "", session |-> None]

\* TidalCredentials::new.
new(token) == [token |-> token, session |-> None]

\* session, were it to leave the value alone when handed None.
session_keeps_on_none(self, s) == IF Len(s) = 0 THEN self ELSE [self EXCEPT !.session = s]

\* session, were it to fill the field only while it is empty.
session_if_unset(self, s) ==
    IF Len(self.session) = 1 THEN self ELSE [self EXCEPT !.session = s]

\* TidalCredentials::session (consumes self, returns it with the field set).
session(self, s) == [self EXCEPT !.session = s]

\* The token check, were it to look for a blank instead of an empty token.
is_blank(s) == s = " "

\* String::is_empty, as create_session applies it to the token.
is_empty(s) == s = ""

\* The status check, were it to take every status below 400 for a success.
is_below_400(status) == status >= 200 /\ status < 400

\* StatusCode::is_success: 200 <= status < 300.
is_success(status) == status >= 200 /\ status < 300

\* The three fields of a Session out of their JSON values: i32, String, String.
decode_fields(u, s, c) ==
    IF IsI32(u) /\ IsJStr(s) /\ IsJStr(c)
    THEN Ok(MkSession(u.num, s.str, c.str))
    ELSE Err("decode")

\* visit_map of the derived deserializer, the fields being looked for under
\* the names ku, ks, kc: members of other names are ignored, a field met
\* twice or never met is an error.
decode_object(ms, ku, ks, kc) ==
    LET at(k) == { i \in 1..Len(ms) : ms[i].key = k }
        val(k) == ms[CHOOSE i \in at(k) : TRUE].val
    IN  IF \E k \in {ku, ks, kc} : Cardinality(at(k)) # 1 THEN Err("decode")
        ELSE decode_fields(val(ku), val(ks), val(kc))

\* visit_seq of the derived deserializer, as serde_json drives it for a JSON
\* array: the elements are the fields in declaration order; too few are an
\* error, and serde_json refuses elements left over.
decode_array(xs) ==
    IF Len(xs) # 3 THEN Err("decode") ELSE decode_fields(xs[1], xs[2], xs[3])

\* The deserializer without rename_all = "camelCase": it looks for the
\* members under the field names.
from_json_field_names(body) ==
    IF body.framing = "io_error" THEN Err("body")
    ELSE IF body.framing = "object"
         THEN decode_object(body.members, "user_id", "session_id", "country_code")
    ELSE IF body.framing = "array" THEN decode_array(body.members)
    ELSE Err("decode")

\* response.json::<Session>(): reading the body, then the deserializer
\* #[derive(Deserialize)] #[serde(rename_all = "camelCase")] gives Session,
\* which takes a JSON object or a JSON array.
from_json(body) ==
    IF body.framing = "io_error" THEN Err("body")
    ELSE IF body.framing = "object"
         THEN decode_object(body.members, "userId", "sessionId", "countryCode")
    ELSE IF body.framing = "array" THEN decode_array(body.members)
    ELSE Err("decode")

\* The conversion, were every reqwest::Error reported as a rejected login.
from_reqwest_as_rejection(r) == IF r.ok THEN r ELSE Err(CreateSessionFailed)

\* The `?` of lines 87 and 91: a reqwest::Error becomes
\* AuthError::AuthRequestFailed through #[from].
from_reqwest(r) == IF r.ok THEN r ELSE Err(AuthRequestFailed(r.error))

\* A retry: an error sends control back to the request.
retry_target == "fetch"

\* Where `?` sends control on an error: out of fetch_session_data.
question_mark_target == "return"

\* One Client, and so one connection, shared by every call.
shared_client(c) == CHOOSE k \in Callers : TRUE

\* Client::new() of line 77: every call makes its own Client, so the
\* connection a call's request travels on is the caller's own.
client(c) == c

\* The HashMap get_session builds.
payload(username, password) == [username |-> username, password |-> password]

\* client.post(url).query(&[("token", token)]).form(&payload).
request(token, form) == [method |-> "POST", query |-> [token |-> token], form |-> form]

\* Diagnostic records.  strings holds the caller-supplied strings the record
\* prints; status is the response status it prints, 0 when it prints none.
\* {:?} of a reqwest Response prints its url (which carries the token as a
\* query parameter), its status and its headers, never its body.
debug_response(token, status) ==
    [level |-> "debug", what |-> "response", strings |-> {token}, status |-> status]

error_request(token, form) ==
    [level |-> "error", what |-> "request",
     strings |-> {token, form.username, form.password}, status |-> 0]

error_response(token, status) ==
    [level |-> "error", what |-> "response", strings |-> {token}, status |-> status]

\* The records the failure branch emits, in the order it emits them.
failure_records(token, form, status) ==
    << error_request(token, form), error_response(token, status) >>

(* ------------------------------------------------------------------ state *)

VARIABLES
    pc,        \* pc[c]: where caller c is in the code
    creds,     \* creds[c]: the TidalCredentials value c holds (Option)
    kept,      \* kept[c]: a clone c made of its value earlier (Option)
    frame,     \* frame[c]: operation and arguments of c's current/last call
    wire,      \* wire[k]: the request in flight on Client k's connection (Option)
    response,  \* response[c]: the response c's current/last call received (Option)
    result,    \* result[c]: the Result c's current/last get_session produced (Option)
    posts,     \* posts[c]: POSTs sent by c's current/last call
    log,       \* log[c]: the diagnostic records c's calls emitted, in order
    calls      \* calls[c]: exchanges c has started

vars == << pc, creds, kept, frame, wire, response, result, posts, log, calls >>

NoFrame ==
    [op |-> "none", self |-> None, token |-> "", username |-> "", password |-> "",
     sarg |-> None]

Frame(op, self, token, username, password, sarg) ==
    [op |-> op, self |-> self, token |-> token, username |-> username,
     password |-> password, sarg |-> sarg]

Init ==
    /\ pc = [c \in Callers |-> "idle"]
    /\ creds = [c \in Callers |-> None]
    /\ kept = [c \in Callers |-> None]
    /\ frame = [c \in Callers |-> NoFrame]
    /\ wire = [c \in Callers |-> None]
    /\ response = [c \in Callers |-> None]
    /\ result = [c \in Callers |-> None]
    /\ posts = [c \in Callers |-> 0]
    /\ log = [c \in Callers |-> << >>]
    /\ calls = [c \in Callers |-> 0]

(* ------------------------------------------------------ holder operations *)

\* let credentials = TidalCredentials::new(token);
New(c, t) ==
    /\ pc[c] = "idle"
    /\ creds' = [creds EXCEPT ![c] = Some(new(t))]
    /\ frame' = [frame EXCEPT ![c] = Frame("new", None, t, "", "", None)]
    /\ UNCHANGED << pc, kept, wire, response, result, posts, log, calls >>

\* let credentials = credentials.session(s);
WithSession(c, s) ==
    /\ pc[c] = "idle"
    /\ is_some(creds[c])
    /\ creds' = [creds EXCEPT ![c] = Some(session(unwrap(creds[c]), s))]
    /\ frame' = [frame EXCEPT ![c] = Frame("session", creds[c], "", "", "", s)]
    /\ UNCHANGED << pc, kept, wire, response, result, posts, log, calls >>

\* let kept = credentials.clone();
Clone(c) ==
    /\ pc[c] = "idle"
    /\ is_some(creds[c])
    /\ kept' = [kept EXCEPT ![c] = creds[c]]
    /\ frame' = [frame EXCEPT ![c] = Frame("clone", None, "", "", "", None)]
    /\ UNCHANGED << pc, creds, wire, response, result, posts, log, calls >>

\* credentials.create_session(username, password), up to the token check of
\* lines 32-35: self is moved into the call; an empty token panics.
CreateSessionPanics(c, u, p) ==
    /\ pc[c] = "idle"
    /\ is_some(creds[c])
    /\ calls[c] < MaxCalls
    /\ is_empty(unwrap(creds[c]).token)
    /\ pc' = [pc EXCEPT ![c] = "panicked"]
    /\ creds' = [creds EXCEPT ![c] = None]
    /\ frame' = [frame EXCEPT ![c] = Frame("create_session", creds[c], "", u, p, None)]
    /\ response' = [response EXCEPT ![c] = None]
    /\ result' = [result EXCEPT ![c] = None]
    /\ posts' = [posts EXCEPT ![c] = 0]
    /\ calls' = [calls EXCEPT ![c] = @ + 1]
    /\ UNCHANGED << kept, wire, log >>

\* credentials.create_session(username, password) with a token set: lines
\* 36-37 copy the token and enter Session::get_session.
CreateSessionEnters(c, u, p) ==
    /\ pc[c] = "idle"
    /\ is_some(creds[c])
    /\ calls[c] < MaxCalls
    /\ ~is_empty(unwrap(creds[c]).token)
    /\ pc' = [pc EXCEPT ![c] = "fetch"]
    /\ creds' = [creds EXCEPT ![c] = None]
    /\ frame' = [frame EXCEPT ![c] =
                    Frame("create_session", creds[c], unwrap(creds[c]).token, u, p, None)]
    /\ response' = [response EXCEPT ![c] = None]
    /\ result' = [result EXCEPT ![c] = None]
    /\ posts' = [posts EXCEPT ![c] = 0]
    /\ calls' = [calls EXCEPT ![c] = @ + 1]
    /\ UNCHANGED << kept, wire, log >>

(* --------------------------------------------------- exchanger operations *)

\* Session::get_session(token, username, password) called directly.
GetSessionEnters(c, t, u, p) ==
    /\ pc[c] = "idle"
    /\ calls[c] < MaxCalls
    /\ pc' = [pc EXCEPT ![c] = "fetch"]
    /\ frame' = [frame EXCEPT ![c] = Frame("get_session", None, t, u, p, None)]
    /\ response' = [response EXCEPT ![c] = None]
    /\ result' = [result EXCEPT ![c] = None]
    /\ posts' = [posts EXCEPT ![c] = 0]
    /\ calls' = [calls EXCEPT ![c] = @ + 1]
    /\ UNCHANGED << creds, kept, wire, log >>

\* Lines 67-87: build the payload, a fresh Client and the request, and send it.
Fetch(c) ==
    /\ pc[c] = "fetch"
    /\ wire' = [wire EXCEPT ![client(c)] =
                   Some(request(frame[c].token,
                                payload(frame[c].username, frame[c].password)))]
    /\ posts' = [posts EXCEPT ![c] = @ + 1]
    /\ pc' = [pc EXCEPT ![c] = "send_await"]
    /\ UNCHANGED << creds, kept, frame, response, result, log, calls >>

\* send().await fails: no response; `?` returns AuthRequestFailed.
SendFails(c, cause) ==
    /\ pc[c] = "send_await"
    /\ is_some(wire[client(c)])
    /\ wire' = [wire EXCEPT ![client(c)] = None]
    /\ result' = [result EXCEPT ![c] = Some(from_reqwest(Err(cause)))]
    /\ pc' = [pc EXCEPT ![c] = question_mark_target]
    /\ UNCHANGED << creds, kept, frame, response, posts, log, calls >>

\* send().await yields the endpoint's response.
SendCompletes(c, r) ==
    /\ pc[c] = "send_await"
    /\ is_some(wire[client(c)])
    /\ wire' = [wire EXCEPT ![client(c)] = None]
    /\ response' = [response EXCEPT ![c] = Some(r)]
    /\ pc' = [pc EXCEPT ![c] = "status"]
    /\ UNCHANGED << creds, kept, frame, result, posts, log, calls >>

\* Lines 89-90: the status is a success; debug! the response.
DebugResponse(c) ==
    /\ pc[c] = "status"
    /\ is_success(unwrap(response[c]).status)
    /\ log' = [log EXCEPT ![c] =
                  Append(@, debug_response(frame[c].token, unwrap(response[c]).status))]
    /\ pc' = [pc EXCEPT ![c] = "json_await"]
    /\ UNCHANGED << creds, kept, frame, wire, response, result, posts, calls >>

\* Line 91: response.json().await, then `?` or Ok(session).
JsonCompletes(c) ==
    /\ pc[c] = "json_await"
    /\ LET r == from_reqwest(from_json(unwrap(response[c]).body))
       IN /\ result' = [result EXCEPT ![c] = Some(r)]
          /\ pc' = [pc EXCEPT ![c] = IF r.ok THEN "return" ELSE question_mark_target]
    /\ UNCHANGED << creds, kept, frame, wire, response, posts, log, calls >>

\* Lines 93-99: the status is no success; error! the request and the
\* response, then Err(CreateSessionFailed).
FailureBranch(c) ==
    /\ pc[c] = "status"
    /\ ~is_success(unwrap(response[c]).status)
    /\ log' = [log EXCEPT ![c] =
                  @ \o failure_records(frame[c].token,
                                       payload(frame[c].username, frame[c].password),
                                       unwrap(response[c]).status)]
    /\ result' = [result EXCEPT ![c] = Some(Err(CreateSessionFailed))]
    /\ pc' = [pc EXCEPT ![c] = "return"]
    /\ UNCHANGED << creds, kept, frame, wire, response, posts, calls >>

\* get_session returns its Result to a direct caller.
ReturnGetSession(c) ==
    /\ pc[c] = "return"
    /\ frame[c].op = "get_session"
    /\ pc' = [pc EXCEPT ![c] = "idle"]
    /\ UNCHANGED << creds, kept, frame, wire, response, result, posts, log, calls >>

\* Lines 37-38: get_session returns into create_session, which keeps
\* .ok() of it and returns self.session(session).
ReturnCreateSession(c) ==
    /\ pc[c] = "return"
    /\ frame[c].op = "create_session"
    /\ creds' = [creds EXCEPT ![c] =
                    Some(session(unwrap(frame[c].self), ok(unwrap(result[c]))))]
    /\ pc' = [pc EXCEPT ![c] = "idle"]
    /\ UNCHANGED << kept, frame, wire, response, result, posts, log, calls >>

(* ---------------------------------------------------------- specification *)

Step(c) ==
    \/ \E t \in Tokens : New(c, t)
    \/ \E s \in SessionArgs : WithSession(c, s)
    \/ Clone(c)
    \/ \E u \in Usernames, p \in Passwords : CreateSessionPanics(c, u, p)
    \/ \E u \in Usernames, p \in Passwords : CreateSessionEnters(c, u, p)
    \/ \E t \in Tokens, u \in Usernames, p \in Passwords : GetSessionEnters(c, t, u, p)
    \/ Fetch(c)
    \/ \E k \in TransportCauses : SendFails(c, k)
    \/ \E r \in Responses : SendCompletes(c, r)
    \/ DebugResponse(c)
    \/ JsonCompletes(c)
    \/ FailureBranch(c)
    \/ ReturnGetSession(c)
    \/ ReturnCreateSession(c)

\* One task using the whole API, with every input.
Next == Step("a")

Spec == Init /\ [][Next]_vars

\* The inputs of the concurrent tasks.
ConcTokens == {"", "some_token", "other_token"}

ConcPasswords == {"somepawssowrd", "pw2"}

ConcResponses ==
    { HttpResponse(200, SessionObject(JNum(123), JStr("session-id-123"), JStr("US"))),
      HttpResponse(200, GarbageBody),
      HttpResponse(401, FailureObject) }

ConcStep(c) ==
    \/ \E t \in ConcTokens : New(c, t)
    \/ \E u \in Usernames, p \in ConcPasswords : CreateSessionPanics(c, u, p)
    \/ \E u \in Usernames, p \in ConcPasswords : CreateSessionEnters(c, u, p)
    \/ Fetch(c)
    \/ SendFails(c, "connect")
    \/ \E r \in ConcResponses : SendCompletes(c, r)
    \/ DebugResponse(c)
    \/ JsonCompletes(c)
    \/ FailureBranch(c)
    \/ ReturnCreateSession(c)

\* Every caller is a task calling create_session on its own value; the tasks
\* interleave at every step.
NextConc == \E c \in Callers : ConcStep(c)

SpecConc == Init /\ [][NextConc]_vars

(* ------------------------------------------------------------- properties *)

\* What the claims say of the inputs, stated without the code's operators.

\* An HTTP status in 200..299.
Is2xx(status) == status \in 200..299

\* The number of members named k in object body b.
Count(b, k) == Cardinality({ i \in 1..Len(b.members) : b.members[i].key = k })

\* The value of the member named k of object body b.
Value(b, k) == b.members[CHOOSE i \in 1..Len(b.members) : b.members[i].key = k].val

\* A body that is a JSON object with exactly one userId, an integer, one
\* sessionId, a string, and one countryCode, a string.
FullSessionBody(b) ==
    /\ b.framing = "object"
    /\ \A k \in {"userId", "sessionId", "countryCode"} : Count(b, k) = 1
    /\ DOMAIN Value(b, "userId") = {"num"}
    /\ DOMAIN Value(b, "sessionId") = {"str"}
    /\ DOMAIN Value(b, "countryCode") = {"str"}

\* A body that is a JSON array of exactly an integer and two strings: the
\* three fields of a Session in the order of their declaration.
FullSessionArray(b) ==
    /\ b.framing = "array"
    /\ Len(b.members) = 3
    /\ DOMAIN b.members[1] = {"num"}
    /\ DOMAIN b.members[2] = {"str"}
    /\ DOMAIN b.members[3] = {"str"}

\* A body that holds a whole Session, in either form.
HoldsSession(b) == FullSessionBody(b) \/ FullSessionArray(b)

\* The session such a body describes.
SessionIn(b) ==
    IF b.framing = "object"
    THEN [user_id |-> Value(b, "userId").num,
          session_id |-> Value(b, "sessionId").str,
          country_code |-> Value(b, "countryCode").str]
    ELSE [user_id |-> b.members[1].num, session_id |-> b.members[2].str,
          country_code |-> b.members[3].str]

\* Caller c's create_session call has just returned.
Authenticated(c) == pc[c] = "idle" /\ frame[c].op = "create_session"

\* Caller c's exchange got a 2xx response whose body is a full session object.
ExchangeSucceeded(c) ==
    /\ is_some(response[c])
    /\ Is2xx(unwrap(response[c]).status)
    /\ FullSessionBody(unwrap(response[c]).body)

\* frame[c] is that of an exchange: c is in one, or its last call was one.
LastCallExchange(c) == frame[c].op \in {"create_session", "get_session"}

\* Caller c's exchange got a response that is not 2xx.
Rejected(c) == is_some(response[c]) /\ ~Is2xx(unwrap(response[c]).status)

\* Caller c's exchange got a 2xx response whose body holds a whole Session.
ExchangeDecoded(c) ==
    /\ is_some(response[c])
    /\ Is2xx(unwrap(response[c]).status)
    /\ HoldsSession(unwrap(response[c]).body)

\* Caller c's exchange got a 2xx response whose body holds no whole Session.
Undecodable(c) ==
    /\ is_some(response[c])
    /\ Is2xx(unwrap(response[c]).status)
    /\ ~HoldsSession(unwrap(response[c]).body)

\* Caller c's exchange has ended and no response was received.
TransportFailed(c) == is_some(result[c]) /\ is_none(response[c])

\* C1: create_session on a value whose token is empty panics: the call never
\* gives a TidalCredentials back, and it sends no request.
C1_EmptyTokenPanics ==
    \A c \in Callers :
        (/\ frame[c].op = "create_session"
         /\ unwrap(frame[c].self).token = "")
            => /\ pc[c] = "panicked"
               /\ creds[c] = None
               /\ posts[c] = 0
               /\ wire[c] = None
               /\ response[c] = None
               /\ result[c] = None

C1_Witness ==
    \E c \in Callers :
        /\ pc[c] = "panicked"
        /\ frame[c].op = "create_session"
        /\ unwrap(frame[c].self).token = ""
        /\ frame[c].password = "pw2"

\* C2: with a token set, a 2xx response with a full session body makes
\* create_session return the value with exactly that session: user_id,
\* session_id and country_code are the response's userId, sessionId and
\* countryCode.
C2_SessionFromResponse ==
    \A c \in Callers :
        (Authenticated(c) /\ ExchangeSucceeded(c))
            => creds[c] =
                   Some([token |-> unwrap(frame[c].self).token,
                         session |-> Some(SessionIn(unwrap(response[c]).body))])

C2_Witness ==
    \E c \in Callers :
        /\ Authenticated(c)
        /\ ExchangeSucceeded(c)
        /\ is_some(creds[c])
        /\ unwrap(creds[c]).session = Some(MkSession(123, "session-id-123", "US"))
        /\ unwrap(creds[c]).token = "some_token"

\* C3: with a token set, whenever the exchange fails (no response, a non-2xx
\* response, or a 2xx body that is no session) create_session still returns
\* a value, and its session is absent whatever session the value held before.
C3_FailureGivesNoSession ==
    \A c \in Callers :
        (Authenticated(c) /\ (TransportFailed(c) \/ Rejected(c) \/ Undecodable(c)))
            => creds[c] =
                   Some([token |-> unwrap(frame[c].self).token, session |-> None])

C3_Witness ==
    \E c \in Callers :
        /\ Authenticated(c)
        /\ Rejected(c)
        /\ unwrap(response[c]).status = 401
        /\ is_some(unwrap(frame[c].self).session)
        /\ is_some(creds[c])
        /\ is_none(unwrap(creds[c]).session)

\* C4: on a non-2xx response get_session never reads the body as a Session
\* and produces no Session; its result is CreateSessionFailed, and by the time
\* that result exists the two error records (the request's token and form,
\* then the response) are the last records emitted.
C4_RejectionLogsThenFails ==
    \A c \in Callers :
        Rejected(c)
            => /\ pc[c] # "json_await"
               /\ is_some(result[c]) => unwrap(result[c]) = Err(CreateSessionFailed)
               /\ (is_some(result[c]) /\ LastCallExchange(c))
                    => /\ ~unwrap(result[c]).ok
                       /\ Len(log[c]) >= 2
                       /\ log[c][Len(log[c]) - 1] =
                              error_request(frame[c].token,
                                  [username |-> frame[c].username,
                                   password |-> frame[c].password])
                       /\ log[c][Len(log[c])] =
                              error_response(frame[c].token,
                                             unwrap(response[c]).status)

C4_Witness ==
    \E c \in Callers :
        /\ Rejected(c)
        /\ pc[c] = "return"
        /\ frame[c].op = "get_session"
        /\ unwrap(response[c]).status = 300
        /\ FullSessionBody(unwrap(response[c]).body)
        /\ unwrap(result[c]) = Err(CreateSessionFailed)

\* C5: get_session's result is AuthRequestFailed, with the transport's error
\* as its source, exactly when no response was received or a 2xx body is no
\* full session; a Session it returns has the three fields of the body.
C5_AuthRequestFailedExactly ==
    \A c \in Callers :
        is_some(result[c])
            => LET r == unwrap(result[c])
               IN /\ (~r.ok /\ r.error.variant = "AuthRequestFailed")
                        <=> (TransportFailed(c) \/ Undecodable(c))
                  /\ TransportFailed(c) => r.error.source \in TransportCauses
                  /\ Undecodable(c) => r.error.source \in {"body", "decode"}
                  /\ r.ok => /\ ExchangeDecoded(c)
                             /\ r.value = SessionIn(unwrap(response[c]).body)

C5_Witness ==
    \E c \in Callers :
        /\ frame[c].op = "get_session"
        /\ pc[c] = "idle"
        /\ Undecodable(c)
        /\ unwrap(response[c]).body.framing = "object"
        /\ unwrap(result[c]) = Err(AuthRequestFailed("decode"))

\* C6: no diagnostic record shows the username or the password handed to
\* get_session.
C6_NoCredentialsInLog ==
    \A c \in Callers :
        \A i \in 1..Len(log[c]) :
            log[c][i].strings \cap (Usernames \cup Passwords) = {}

\* C7: a call sends one POST and ends with a result: never more than one,
\* exactly one once the request is out, and after any failure the call
\* returns without a second request.
C7_SingleShot ==
    \A c \in Callers :
        /\ posts[c] <= 1
        /\ pc[c] \in {"send_await", "status", "json_await", "return"} => posts[c] = 1
        /\ pc[c] = "send_await" <=> is_some(wire[c])
        /\ (pc[c] = "idle" /\ LastCallExchange(c))
              => (posts[c] = 1 /\ is_some(result[c]))

C7_Witness ==
    \E c \in Callers :
        /\ pc[c] = "idle"
        /\ frame[c].op = "get_session"
        /\ TransportFailed(c)
        /\ posts[c] = 1

\* The token of the value caller c holds or has passed to a running call.
TokenOf(c) ==
    IF is_some(creds[c]) THEN Some(unwrap(creds[c]).token)
    ELSE IF pc[c] # "idle" /\ is_some(frame[c].self)
         THEN Some(unwrap(frame[c].self).token)
         ELSE None

\* C8: new(token) gives a value with that token and no session, and no
\* session or create_session call changes the token of a value.
C8_TokenFixed ==
    /\ [](\A c \in Callers :
             frame[c].op = "new" => creds[c] = Some([token |-> frame[c].token,
                                                      session |-> None]))
    /\ [][\A c \in Callers :
             (frame'[c].op # "new" /\ is_some(TokenOf(c))) => TokenOf(c)' = TokenOf(c)]_vars

C8_Witness ==
    \E c \in Callers :
        /\ Authenticated(c)
        /\ is_some(unwrap(frame[c].self).session)
        /\ is_some(creds[c])
        /\ unwrap(creds[c]).token = "other_token"
        /\ is_some(unwrap(creds[c]).session)
        /\ unwrap(creds[c]).session # unwrap(frame[c].self).session

\* C9: session(s) returns the value with its session exactly s and its token
\* as before, and the call touches nothing else: no request, no record, no
\* clone made earlier, no other caller's value.
C9_SessionPure ==
    /\ [](\A c \in Callers :
             frame[c].op = "session"
                 => creds[c] = Some([token |-> unwrap(frame[c].self).token,
                                     session |-> frame[c].sarg]))
    /\ [][\A c \in Callers :
             (frame'[c].op = "session" /\ frame'[c] # frame[c])
                 => /\ UNCHANGED << pc, kept, wire, response, result, posts, log, calls >>
                    /\ \A d \in Callers \ {c} :
                          creds'[d] = creds[d] /\ frame'[d] = frame[d]]_vars

C9_Witness ==
    \E c \in Callers :
        /\ frame[c].op = "session"
        /\ is_some(unwrap(frame[c].self).session)
        /\ is_none(frame[c].sarg)
        /\ is_some(kept[c])
        /\ is_some(unwrap(kept[c]).session)
        /\ kept[c] # creds[c]

\* The state that belongs to caller c alone.
Local(c) ==
    << pc[c], creds[c], kept[c], frame[c], wire[c], response[c], result[c],
       posts[c], log[c], calls[c] >>

\* C10: with several create_session calls in flight, the request on a
\* caller's connection is the one built from its own token and arguments,
\* the value a call returns is decided by the response that call received,
\* and no step changes the state of two callers.
C10_CallsIsolated ==
    /\ [](\A c \in Callers :
             /\ pc[c] = "send_await"
                  => wire[c] = Some([method |-> "POST",
                                     query |-> [token |-> unwrap(frame[c].self).token],
                                     form |-> [username |-> frame[c].username,
                                               password |-> frame[c].password]])
             /\ Authenticated(c)
                  => creds[c] =
                         Some([token |-> unwrap(frame[c].self).token,
                               session |-> IF ExchangeDecoded(c)
                                           THEN Some(SessionIn(unwrap(response[c]).body))
                                           ELSE None]))
    /\ [][\A c, d \in Callers :
             (c # d /\ Local(c)' # Local(c)) => Local(d)' = Local(d)]_vars

C10_Witness ==
    \E c, d \in Callers :
        /\ c # d
        /\ pc[d] = "send_await"
        /\ Authenticated(c)
        /\ ExchangeSucceeded(c)
        /\ calls[d] = 1
        /\ frame[c].token # frame[d].token
        /\ frame[c].password # frame[d].password

====
